---- MODULE Spec2Model ----
(***************************************************************************)
(* A model of jira-sizer (src/main.ts): a single-shot CLI that resolves a  *)
(* sprint (from a ticket's sprint field, or from the configured board),    *)
(* fetches the "Ready to Size" issues of that sprint, groups them by       *)
(* parent epic and renders one "/pp" line per issue.                       *)
(*                                                                         *)
(* Specifications:                                                         *)
(*   Spec         one whole run of the program, from the startup check to  *)
(*                process exit, against a nondeterministic Jira service    *)
(*   SpecSprints  getAllSprints' sort and getNextSprint's selection over   *)
(*                every bounded sprint list                                *)
(*   SpecEpics    organizeIssuesByEpic and generateSlackCommands over      *)
(*                every bounded issue list                                 *)
(*   SpecPages    getAllSprints' pagination loop with the program's own    *)
(*                page size (50) and cap (1000)                            *)
(***************************************************************************)
EXTENDS Integers, Sequences, FiniteSets, TLC

VARIABLES
    config,         \* which of the four environment variables are non-empty
    ticketKey,      \* process.argv[2], NoArg when absent
    pc,             \* position of the single thread of control
    exitCode,       \* Running until the process has ended, then its exit code
    outcome,        \* terminal state of the run, "none" while running
    httpCalls,      \* number of jiraClient.get requests issued so far
    file,           \* content of slack-commands.md
    sprints,        \* getAllSprints: const sprints
    startAt,        \* getAllSprints: let startAt
    isLast,         \* getAllSprints: let isLast
    allSprints,     \* getNextSprint: const allSprints
    sprint,         \* main: const sprint / const nextSprint
    issues,         \* main: const issues
    epicGroups,     \* main: const epicGroups
    slackCommands,  \* main: const slackCommands
    lastResponse    \* history: the answer of the service to the latest request

vars == <<config, ticketKey, pc, exitCode, outcome, httpCalls, file, sprints,
          startAt, isLast, allSprints, sprint, issues, epicGroups,
          slackCommands, lastResponse>>

-----------------------------------------------------------------------------
(* Program constants                                                       *)

MAX_SPRINTS_TO_FETCH == 1000

maxResults == 50

JIRA_BASE_URL_VALUE == "https://x.atlassian.net"

(* Bounds of the model                                                     *)

\* longest sprint list handed to the sort and the selection in SpecSprints
MaxSprints == 3

\* longest issue list handed to the grouper in SpecEpics
MaxTickets == 3

\* Spec: largest page the service answers with, and the largest "total" it
\* reports, in pages of maxResults
MaxPageLen == 1

MaxTotalPages == 2

\* Spec: longest sprint-membership field and longest search result
MaxSprintField == 2

MaxIssues == 2

\* SpecPages: the largest "total" the service reports, in pages of maxResults
MaxReportedPages == 22

-----------------------------------------------------------------------------
(* Values                                                                  *)

\* JavaScript's null / undefined where an object is expected
Null == [absent |-> TRUE]

NoArg == "undefined"

Running == -1

\* a sprint without a start (end) date: the property is undefined
NoDate == 0

BoundedSeq(S, n) == UNION {[1..k -> S] : k \in 0..n}

Min(a, b) == IF a < b THEN a ELSE b

SeqSum(s) == LET RECURSIVE Go(_)
                 Go(i) == IF i = 0 THEN 0 ELSE s[i] + Go(i - 1)
             IN Go(Len(s))

Slice(s, from0, to0) ==
    \* Array.prototype.slice(from0, to0), 0-based, end exclusive
    SubSeq(s, from0 + 1, Min(to0, Len(s)))

ConfigKeys == {"JIRA_BASE_URL", "JIRA_EMAIL", "JIRA_API_TOKEN", "JIRA_BOARD_ID"}

SprintStates == {"future", "active", "closed"}

SprintNames == {"Sprint 10", "DevOps Sprint"}

\* String.prototype.includes("DevOps") on the names of the model
IncludesDevOps(name) == name \in {"DevOps Sprint", "DevOps", "Team DevOps 3"}

\* the sprint lists of SpecSprints are drawn from these
SprintInputs ==
    [id : {1}, name : SprintNames, state : SprintStates,
     startDate : {NoDate, 1, 2}, endDate : {NoDate}]

\* the sprints the service of Spec knows
BoardSprints ==
    { [id |-> 10, name |-> "Sprint 10", state |-> "future",
       startDate |-> NoDate, endDate |-> NoDate],
      [id |-> 11, name |-> "DevOps Sprint", state |-> "future",
       startDate |-> 3, endDate |-> 4],
      [id |-> 9, name |-> "Sprint 9", state |-> "active",
       startDate |-> 1, endDate |-> 2] }

\* the sprint all pages of SpecPages are filled with
PageSprint ==
    [id |-> 1, name |-> "Sprint 1", state |-> "closed",
     startDate |-> NoDate, endDate |-> NoDate]

-----------------------------------------------------------------------------
(* getAllSprints: the sort                                                 *)

\* the comparator handed to Array.prototype.sort
comparefn(a, b) ==
    IF a.startDate = NoDate \/ b.startDate = NoDate
    THEN 0
    ELSE b.startDate - a.startDate

(* Array.prototype.sort as the runtime (V8, TimSort) computes it for an    *)
(* array shorter than 64 elements, or one that is a single run: the        *)
(* leading run is counted (and reversed when strictly descending), and the *)
(* remaining elements are placed by binary insertion.  The comparator      *)
(* above is not a consistent order when start dates are missing, so the    *)
(* result depends on exactly these comparisons.                            *)
RECURSIVE RunLength(_, _, _, _)
RunLength(arr, idx, isDescending, len) ==
    IF idx > Len(arr) THEN len
    ELSE LET order == comparefn(arr[idx], arr[idx - 1])
         IN IF (isDescending /\ order >= 0) \/ (~isDescending /\ order < 0)
            THEN len
            ELSE RunLength(arr, idx + 1, isDescending, len + 1)

ReverseRange(arr, n) ==
    [i \in 1..Len(arr) |-> IF i <= n THEN arr[n + 1 - i] ELSE arr[i]]

CountAndMakeRun(arr) ==
    LET isDescending == comparefn(arr[2], arr[1]) < 0
        len          == RunLength(arr, 3, isDescending, 2)
    IN [arr |-> IF isDescending THEN ReverseRange(arr, len) ELSE arr,
        runLength |-> len]

RECURSIVE BinarySearch(_, _, _, _)
BinarySearch(arr, pivot, left, right) ==
    IF left < right
    THEN LET mid == left + ((right - left) \div 2)
         IN IF comparefn(pivot, arr[mid]) < 0
            THEN BinarySearch(arr, pivot, left, mid)
            ELSE BinarySearch(arr, pivot, mid + 1, right)
    ELSE left

RECURSIVE BinaryInsertionSort(_, _)
BinaryInsertionSort(arr, start) ==
    IF start > Len(arr) THEN arr
    ELSE LET pivot == arr[start]
             left  == BinarySearch(arr, pivot, 1, start)
             moved == [i \in 1..Len(arr) |->
                         IF i < left \/ i > start THEN arr[i]
                         ELSE IF i = left THEN pivot
                         ELSE arr[i - 1]]
         IN BinaryInsertionSort(moved, start + 1)

IsSingleRun(arr) ==
    \A i \in 2..Len(arr) : comparefn(arr[i], arr[i - 1]) >= 0

ArraySort(arr) ==
    IF Len(arr) < 2 \/ IsSingleRun(arr) THEN arr
    ELSE LET run == CountAndMakeRun(arr)
         IN BinaryInsertionSort(run.arr, run.runLength + 1)

\* getAllSprints' return statement
SortedSprints(collected) == Slice(ArraySort(collected), 0, MAX_SPRINTS_TO_FETCH)

-----------------------------------------------------------------------------
(* getNextSprint: the selection                                            *)

IsFutureSprint(s) == s.state = "future" /\ ~IncludesDevOps(s.name)

IsActiveSprint(s) == s.state = "active"

\* mutant: the DevOps exclusion is forgotten
getNextSprint_AnyFuture(list) ==
    LET IsFuture(s)   == s.state = "future"
        futureSprints == SelectSeq(list, IsFuture)
        activeSprints == SelectSeq(list, IsActiveSprint)
    IN IF Len(futureSprints) > 0 THEN futureSprints[1]
       ELSE IF Len(activeSprints) > 0 THEN activeSprints[1]
       ELSE IF Len(list) > 0 THEN list[1]
       ELSE Null

getNextSprint(list) ==
    LET futureSprints == SelectSeq(list, IsFutureSprint)
        activeSprints == SelectSeq(list, IsActiveSprint)
    IN IF Len(futureSprints) > 0 THEN futureSprints[1]
       ELSE IF Len(activeSprints) > 0 THEN activeSprints[1]
       ELSE IF Len(list) > 0 THEN list[1]
       ELSE Null

-----------------------------------------------------------------------------
(* Issues and epic groups                                                  *)

NoParent == Null

EpicParents ==
    { [key |-> "EPIC-1", summary |-> "Login"],
      [key |-> "EPIC-1", summary |-> "Login (renamed)"],
      [key |-> "EPIC-2", summary |-> "Billing"] }

\* issue.key, issue.fields.summary, issue.fields.parent
TicketInputs ==
    [key : {"T-1", "T-2"}, summary : {"Fix bug"},
     parent : EpicParents \cup {NoParent}]

NO_EPIC == "NO_EPIC"

(* An EpicGroup object is modelled as the sequence of its properties in    *)
(* the order they were created: <<[key, epicName, issues], ...>>.          *)

HasKey(obj, k) == \E i \in 1..Len(obj) : obj[i].key = k

\* epicGroups[k].issues.push(issue)
PushIssue(obj, k, issue) ==
    [i \in 1..Len(obj) |->
        IF obj[i].key = k
        THEN [obj[i] EXCEPT !.issues = Append(@, issue)]
        ELSE obj[i]]

\* delete epicGroups[k]
DeleteKey(obj, k) == LET Keep(e) == e.key # k IN SelectSeq(obj, Keep)

\* the body of issues.forEach in organizeIssuesByEpic
GroupIssue(obj, issue) ==
    IF issue.parent # NoParent
    THEN LET epicKey  == issue.parent.key
             epicName == issue.parent.summary
             created  == IF ~HasKey(obj, epicKey)
                         THEN Append(obj, [key |-> epicKey,
                                           epicName |-> epicName,
                                           issues |-> <<>>])
                         ELSE obj
         IN PushIssue(created, epicKey, issue)
    ELSE PushIssue(obj, NO_EPIC, issue)

RECURSIVE GroupAll(_, _, _)
GroupAll(obj, list, i) ==
    IF i > Len(list) THEN obj
    ELSE GroupAll(GroupIssue(obj, list[i]), list, i + 1)

\* mutant: the empty NO_EPIC group is not deleted
organizeIssuesByEpic_KeepEmpty(list) ==
    GroupAll(<< [key |-> NO_EPIC, epicName |-> "Tasks without Epic",
                 issues |-> <<>>] >>, list, 1)

organizeIssuesByEpic(list) ==
    LET initial == << [key |-> NO_EPIC, epicName |-> "Tasks without Epic",
                       issues |-> <<>>] >>
        grouped == GroupAll(initial, list, 1)
        noEpic  == CHOOSE i \in 1..Len(grouped) : grouped[i].key = NO_EPIC
    IN IF Len(grouped[noEpic].issues) = 0
       THEN DeleteKey(grouped, NO_EPIC)
       ELSE grouped

(* Object.entries lists the properties whose key is a canonical array      *)
(* index ("0", "1", ...) first, in ascending numeric order, and then the   *)
(* other string keys in creation order.                                    *)
ArrayIndexOf == ("0" :> 0) @@ ("1" :> 1) @@ ("2" :> 2)

IsArrayIndex(k) == k \in DOMAIN ArrayIndexOf

RECURSIVE IndexEntries(_, _)
IndexEntries(obj, from) ==
    LET idx == {ArrayIndexOf[obj[i].key] :
                  i \in {j \in 1..Len(obj) : IsArrayIndex(obj[j].key)}}
        rest == {n \in idx : n >= from}
    IN IF rest = {} THEN <<>>
       ELSE LET n == CHOOSE m \in rest : \A o \in rest : m <= o
                e == CHOOSE i \in 1..Len(obj) :
                        IsArrayIndex(obj[i].key) /\ ArrayIndexOf[obj[i].key] = n
            IN <<obj[e]>> \o IndexEntries(obj, n + 1)

ObjectEntries(obj) ==
    LET IsString(e) == ~IsArrayIndex(e.key)
    IN IndexEntries(obj, 0) \o SelectSeq(obj, IsString)

(* Text is modelled as the sequence of the strings concatenated into it.   *)
NL == "\n"

\* "/pp " + issueUrl + ` ${issue.fields.summary}` + "\n"
SlackLine(baseUrl, issue) ==
    <<"/pp ", baseUrl, "/browse/", issue.key, " ", issue.summary, NL>>

RECURSIVE IssueLines(_, _, _)
IssueLines(baseUrl, list, i) ==
    IF i > Len(list) THEN <<>>
    ELSE SlackLine(baseUrl, list[i]) \o IssueLines(baseUrl, list, i + 1)

RECURSIVE GroupLines(_, _, _)
GroupLines(baseUrl, entries, g) ==
    IF g > Len(entries) THEN <<>>
    ELSE IssueLines(baseUrl, entries[g].issues, 1) \o <<NL>>
         \o GroupLines(baseUrl, entries, g + 1)

\* mutant: the NO_EPIC group is rendered last instead of in creation order
generateSlackCommands_Sorted(obj) ==
    LET entries == ObjectEntries(obj)
        IsNoEpic(e) == e.key = NO_EPIC
        IsEpic(e)   == e.key # NO_EPIC
    IN GroupLines(JIRA_BASE_URL_VALUE,
                  SelectSeq(entries, IsEpic) \o SelectSeq(entries, IsNoEpic), 1)

generateSlackCommands(obj) ==
    GroupLines(JIRA_BASE_URL_VALUE, ObjectEntries(obj), 1)

-----------------------------------------------------------------------------
(* The service's answers                                                   *)

\* the answer to GET /rest/agile/1.0/board/{boardId}/sprint
PageResponses(Pages, Totals) ==
    [kind : {"page"}, values : Pages, isLast : BOOLEAN, total : Totals]
    \cup {[kind |-> "novalues"], [kind |-> "error"]}

SmallPages == BoundedSeq(BoardSprints, MaxPageLen)

SmallTotals ==
    {p * maxResults + d : p \in 0..MaxTotalPages, d \in 0..MaxPageLen}

LargePages == {[i \in 1..n |-> PageSprint] : n \in {0, 20, maxResults}}

LargeTotals == {p * maxResults : p \in 0..MaxReportedPages}

\* the value of fields["cf[10007]"] in the answer to
\* GET /rest/agile/1.0/issue/{ticketKey}; the array's elements carry more
\* than the five properties of a Sprint
SprintFieldItems ==
    {[id |-> s.id, name |-> s.name, state |-> s.state,
      startDate |-> s.startDate, endDate |-> s.endDate, boardId |-> 7] :
        s \in BoardSprints}

CustomSprintValues ==
    [type : {"undefined", "null", "string", "object"}]
    \cup [type : {"array"}, items : BoundedSeq(SprintFieldItems, MaxSprintField)]

AgileResponses ==
    [kind : {"ok"}, customSprint : CustomSprintValues]
    \cup {[kind |-> "nofields"], [kind |-> "error"]}

\* the answer to GET /rest/api/3/search
SearchResponses ==
    [kind : {"ok"}, issues : BoundedSeq(TicketInputs, MaxIssues)]
    \cup {[kind |-> "noissues"], [kind |-> "error"]}

-----------------------------------------------------------------------------
(* The functions that call the service                                     *)

\* what a call hands to its caller: a value, or an exception
Return(v) == [thrown |-> FALSE, value |-> v]

Throw == [thrown |-> TRUE, value |-> Null]

\* getAllSprints: the while condition
LoopCondition(last, collected) ==
    ~last /\ Len(collected) < MAX_SPRINTS_TO_FETCH

\* mutant: the reported total is not compared
IsLastPage_NoTotal(respIsLast, start, n, total) == respIsLast

\* getAllSprints: isLast after a page of n sprints
IsLastPage(respIsLast, start, n, total) ==
    respIsLast \/ start + n >= total

\* mutant: the catch block returns what was collected
GetAllSprintsCatch_Partial(collected) == SortedSprints(collected)

\* getAllSprints: the catch block
GetAllSprintsCatch(collected) == <<>>

Truthy(v) == v.type \notin {"undefined", "null"}

IsArray(v) == v.type = "array"

\* mutant: the first sprint of the field is taken, not the last
getSprintFromAgileAPI_First(resp) ==
    IF resp.kind # "ok" THEN Return(Null)
    ELSE LET customSprint == resp.customSprint
         IN IF /\ Truthy(customSprint)
               /\ IsArray(customSprint)
               /\ Len(customSprint.items) > 0
            THEN LET s == customSprint.items[1]
                 IN Return([id |-> s.id, name |-> s.name, state |-> s.state,
                            startDate |-> s.startDate, endDate |-> s.endDate])
            ELSE Return(Null)

getSprintFromAgileAPI(resp) ==
    IF resp.kind = "error" THEN Return(Null)              \* catch
    ELSE IF resp.kind = "nofields" THEN Return(Null)      \* TypeError, catch
    ELSE LET customSprint == resp.customSprint
         IN IF /\ Truthy(customSprint)
               /\ IsArray(customSprint)
               /\ Len(customSprint.items) > 0
            THEN LET s == customSprint.items[Len(customSprint.items)]
                 IN Return([id |-> s.id, name |-> s.name, state |-> s.state,
                            startDate |-> s.startDate, endDate |-> s.endDate])
            ELSE Return(Null)

\* mutant: no try/catch around the request
getReadyToSizeIssuesFromSprint_Uncaught(resp) ==
    IF resp.kind = "error" THEN Throw
    ELSE IF resp.kind = "ok" THEN Return(resp.issues)
    ELSE Return(<<>>)

getReadyToSizeIssuesFromSprint(resp) ==
    IF resp.kind = "error" THEN Return(<<>>)              \* catch
    ELSE IF resp.kind = "ok" THEN Return(resp.issues)
    ELSE Return(<<>>)

\* mutant: the board id is not checked
MissingConfig_NoBoardId(c) == \E k \in ConfigKeys \ {"JIRA_BOARD_ID"} : ~c[k]

\* the check at module load
MissingConfig(c) == \E k \in ConfigKeys : ~c[k]

\* mutant: the board branch writes the file too
AfterPrint_Always(key) == "main_write"

\* main: only the ticket branch writes slack-commands.md
AfterPrint(key) == IF key # NoArg THEN "main_write" ELSE "main_return"

PriorContent == <<"/pp ", "stale", NL, NL>>

-----------------------------------------------------------------------------
(* Actions                                                                 *)

Exit(code, how) ==
    /\ pc' = "exited"
    /\ exitCode' = code
    /\ outcome' = how

\* lines 14-19: process.exit(1) when a required variable is missing
StartupCheck ==
    /\ pc = "startup"
    /\ IF MissingConfig(config)
       THEN Exit(1, "ConfigError")
       ELSE pc' = "main" /\ UNCHANGED <<exitCode, outcome>>
    /\ UNCHANGED <<config, ticketKey, httpCalls, file, sprints, startAt,
                   isLast, allSprints, sprint, issues, epicGroups,
                   slackCommands, lastResponse>>

\* main: the branch on process.argv[2]; the board branch enters
\* getNextSprint and, in it, getAllSprints
MainBranch ==
    /\ pc = "main"
    /\ IF ticketKey # NoArg
       THEN pc' = "getSprintFromAgileAPI" /\ UNCHANGED <<sprints, startAt, isLast>>
       ELSE /\ pc' = "getAllSprints"
            /\ sprints' = <<>>
            /\ startAt' = 0
            /\ isLast' = FALSE
    /\ UNCHANGED <<config, ticketKey, exitCode, outcome, httpCalls, file,
                   allSprints, sprint, issues, epicGroups, slackCommands,
                   lastResponse>>

\* main, ticket branch: await getSprintFromAgileAPI(ticketKey)
GetSprintFromAgileAPI ==
    /\ pc = "getSprintFromAgileAPI"
    /\ \E resp \in AgileResponses :
          LET r == getSprintFromAgileAPI(resp)
          IN /\ lastResponse' = resp
             /\ IF r.thrown
                THEN pc' = "main_catch" /\ UNCHANGED sprint
                ELSE pc' = "main_sprint" /\ sprint' = r.value
    /\ httpCalls' = httpCalls + 1
    /\ UNCHANGED <<config, ticketKey, exitCode, outcome, file, sprints,
                   startAt, isLast, allSprints, issues, epicGroups,
                   slackCommands>>

\* main: if (!sprint) return, in either branch
MainSprint ==
    /\ pc = "main_sprint"
    /\ IF sprint = Null
       THEN Exit(0, "NoSprintFound")
       ELSE pc' = "getReadyToSizeIssuesFromSprint" /\ UNCHANGED <<exitCode, outcome>>
    /\ UNCHANGED <<config, ticketKey, httpCalls, file, sprints, startAt,
                   isLast, allSprints, sprint, issues, epicGroups,
                   slackCommands, lastResponse>>

\* getAllSprints: one turn of the while loop, a request and its answer
GetAllSprintsPage(Pages, Totals) ==
    /\ pc = "getAllSprints"
    /\ LoopCondition(isLast, sprints)
    /\ httpCalls' = httpCalls + 1
    /\ \E resp \in PageResponses(Pages, Totals) :
          \/ /\ resp.kind = "page"
             /\ sprints' = sprints \o resp.values
             /\ isLast' = IsLastPage(resp.isLast, startAt, Len(resp.values),
                                     resp.total)
             /\ startAt' = startAt + maxResults
             /\ lastResponse' = [kind |-> "page", isLast |-> resp.isLast,
                                 more |-> Len(sprints') < resp.total]
             /\ UNCHANGED <<pc, allSprints>>
          \/ /\ resp.kind = "novalues"
             /\ isLast' = TRUE
             /\ lastResponse' = resp
             /\ UNCHANGED <<pc, sprints, startAt, allSprints>>
          \/ /\ resp.kind = "error"
             /\ allSprints' = GetAllSprintsCatch(sprints)
             /\ pc' = "getNextSprint"
             /\ lastResponse' = resp
             /\ UNCHANGED <<sprints, startAt, isLast>>
    /\ UNCHANGED <<config, ticketKey, exitCode, outcome, file, sprint, issues,
                   epicGroups, slackCommands>>

\* getAllSprints: the loop has ended; sort (in place), slice, return
GetAllSprintsReturn ==
    /\ pc = "getAllSprints"
    /\ ~LoopCondition(isLast, sprints)
    /\ sprints' = ArraySort(sprints)
    /\ allSprints' = SortedSprints(sprints)
    /\ pc' = "getNextSprint"
    /\ UNCHANGED <<config, ticketKey, exitCode, outcome, httpCalls, file,
                   startAt, isLast, sprint, issues, epicGroups, slackCommands,
                   lastResponse>>

\* getNextSprint: the three filters, up to the return statement
GetNextSprintSelect ==
    /\ pc = "getNextSprint"
    /\ sprint' = getNextSprint(allSprints)
    /\ pc' = "getNextSprint_return"
    /\ UNCHANGED <<config, ticketKey, exitCode, outcome, httpCalls, file,
                   sprints, startAt, isLast, allSprints, issues, epicGroups,
                   slackCommands, lastResponse>>

\* getNextSprint returns to main; its locals and getAllSprints' are gone
GetNextSprintReturn ==
    /\ pc = "getNextSprint_return"
    /\ pc' = "main_sprint"
    /\ sprints' = <<>>
    /\ startAt' = 0
    /\ isLast' = FALSE
    /\ allSprints' = <<>>
    /\ UNCHANGED <<config, ticketKey, exitCode, outcome, httpCalls, file,
                   sprint, issues, epicGroups, slackCommands, lastResponse>>

\* main: await getReadyToSizeIssuesFromSprint(sprint.id)
GetReadyToSizeIssues ==
    /\ pc = "getReadyToSizeIssuesFromSprint"
    /\ \E resp \in SearchResponses :
          LET r == getReadyToSizeIssuesFromSprint(resp)
          IN /\ lastResponse' = resp
             /\ IF r.thrown
                THEN pc' = "main_catch" /\ UNCHANGED issues
                ELSE pc' = "main_issues" /\ issues' = r.value
    /\ httpCalls' = httpCalls + 1
    /\ UNCHANGED <<config, ticketKey, exitCode, outcome, file, sprints,
                   startAt, isLast, allSprints, sprint, epicGroups,
                   slackCommands>>

\* main: if (issues.length === 0) return
MainIssues ==
    /\ pc = "main_issues"
    /\ IF Len(issues) = 0
       THEN Exit(0, "NoIssuesFound")
       ELSE pc' = "organizeIssuesByEpic" /\ UNCHANGED <<exitCode, outcome>>
    /\ UNCHANGED <<config, ticketKey, httpCalls, file, sprints, startAt,
                   isLast, allSprints, sprint, issues, epicGroups,
                   slackCommands, lastResponse>>

OrganizeIssuesByEpic ==
    /\ pc = "organizeIssuesByEpic"
    /\ epicGroups' = organizeIssuesByEpic(issues)
    /\ pc' = "generateSlackCommands"
    /\ UNCHANGED <<config, ticketKey, exitCode, outcome, httpCalls, file,
                   sprints, startAt, isLast, allSprints, sprint, issues,
                   slackCommands, lastResponse>>

\* generateSlackCommands, and the printing of its result
GenerateSlackCommands ==
    /\ pc = "generateSlackCommands"
    /\ slackCommands' = generateSlackCommands(epicGroups)
    /\ pc' = AfterPrint(ticketKey)
    /\ UNCHANGED <<config, ticketKey, exitCode, outcome, httpCalls, file,
                   sprints, startAt, isLast, allSprints, sprint, issues,
                   epicGroups, lastResponse>>

\* fs.writeFileSync("slack-commands.md", slackCommands): the content is
\* replaced, or the call throws (the file cannot be opened) into main's catch
WriteFile ==
    /\ pc = "main_write"
    /\ \/ file' = slackCommands /\ pc' = "main_return"
       \/ pc' = "main_catch" /\ UNCHANGED file
    /\ UNCHANGED <<config, ticketKey, exitCode, outcome, httpCalls, sprints,
                   startAt, isLast, allSprints, sprint, issues, epicGroups,
                   slackCommands, lastResponse>>

\* main returns after its last statement; the process ends normally
MainReturn ==
    /\ pc = "main_return"
    /\ Exit(0, "Done")
    /\ UNCHANGED <<config, ticketKey, httpCalls, file, sprints, startAt,
                   isLast, allSprints, sprint, issues, epicGroups,
                   slackCommands, lastResponse>>

\* main: catch (error) { console.error(...) }; the process ends normally
MainCatch ==
    /\ pc = "main_catch"
    /\ Exit(0, "Failed")
    /\ UNCHANGED <<config, ticketKey, httpCalls, file, sprints, startAt,
                   isLast, allSprints, sprint, issues, epicGroups,
                   slackCommands, lastResponse>>

-----------------------------------------------------------------------------
(* Specifications                                                          *)

NoResponse == [kind |-> "none"]

AllPresent == [k \in ConfigKeys |-> TRUE]

\* the state of a run that has not fetched or computed anything yet
Fresh ==
    /\ exitCode = Running
    /\ outcome = "none"
    /\ file = PriorContent
    /\ allSprints = <<>>
    /\ sprint = Null
    /\ epicGroups = <<>>
    /\ slackCommands = <<>>
    /\ lastResponse = NoResponse

Init ==
    /\ config \in [ConfigKeys -> BOOLEAN]
    /\ ticketKey \in {NoArg, "PROJ-123"}
    /\ pc = "startup"
    /\ httpCalls = 0
    /\ sprints = <<>>
    /\ startAt = 0
    /\ isLast = FALSE
    /\ issues = <<>>
    /\ Fresh

Next ==
    \/ StartupCheck
    \/ MainBranch
    \/ GetSprintFromAgileAPI
    \/ GetAllSprintsPage(SmallPages, SmallTotals)
    \/ GetAllSprintsReturn
    \/ GetNextSprintSelect
    \/ GetNextSprintReturn
    \/ MainSprint
    \/ GetReadyToSizeIssues
    \/ MainIssues
    \/ OrganizeIssuesByEpic
    \/ GenerateSlackCommands
    \/ WriteFile
    \/ MainReturn
    \/ MainCatch

Spec == Init /\ [][Next]_vars

\* getAllSprints has left its loop with any list of sprints collected
InitSprints ==
    /\ config = AllPresent
    /\ ticketKey = NoArg
    /\ pc = "getAllSprints"
    /\ httpCalls = 1
    /\ sprints \in BoundedSeq(SprintInputs, MaxSprints)
    /\ startAt = maxResults
    /\ isLast = TRUE
    /\ issues = <<>>
    /\ Fresh

NextSprints ==
    \/ GetAllSprintsReturn
    \/ GetNextSprintSelect

SpecSprints == InitSprints /\ [][NextSprints]_vars

\* main holds any list of issues
InitEpics ==
    /\ config = AllPresent
    /\ ticketKey = NoArg
    /\ pc = "organizeIssuesByEpic"
    /\ httpCalls = 2
    /\ sprints = <<>>
    /\ startAt = 0
    /\ isLast = FALSE
    /\ issues \in BoundedSeq(TicketInputs, MaxTickets)
    /\ Fresh

NextEpics ==
    \/ OrganizeIssuesByEpic
    \/ GenerateSlackCommands

SpecEpics == InitEpics /\ [][NextEpics]_vars

\* getAllSprints enters its loop; the service answers with pages of up to
\* maxResults sprints, and every request is answered
InitPages ==
    /\ config = AllPresent
    /\ ticketKey = NoArg
    /\ pc = "getAllSprints"
    /\ httpCalls = 0
    /\ sprints = <<>>
    /\ startAt = 0
    /\ isLast = FALSE
    /\ issues = <<>>
    /\ Fresh

NextPages ==
    \/ GetAllSprintsPage(LargePages, LargeTotals)
    \/ GetAllSprintsReturn

SpecPages == InitPages /\ [][NextPages]_vars /\ WF_vars(NextPages)

-----------------------------------------------------------------------------
(* Properties                                                              *)

IsSprintOf(s, item) ==
    /\ DOMAIN s = {"id", "name", "state", "startDate", "endDate"}
    /\ s.id = item.id
    /\ s.name = item.name
    /\ s.state = item.state
    /\ s.startDate = item.startDate
    /\ s.endDate = item.endDate

FirstIn(S) == CHOOSE i \in S : \A j \in S : i <= j

(* C1: getNextSprint returns the first sprint of the list that is future   *)
(* and not named DevOps; failing that the first active one; failing that   *)
(* the first sprint of the list; and null exactly when the list is empty.  *)
C1_SprintSelector ==
    pc = "getNextSprint_return" =>
        LET L == allSprints
            F == {i \in 1..Len(L) :
                    L[i].state = "future" /\ ~IncludesDevOps(L[i].name)}
            A == {i \in 1..Len(L) : L[i].state = "active"}
        IN /\ F # {} => sprint = L[FirstIn(F)]
           /\ (F = {} /\ A # {}) => sprint = L[FirstIn(A)]
           /\ (F = {} /\ A = {} /\ Len(L) > 0) => sprint = L[1]
           /\ Len(L) = 0 => sprint = Null
           /\ (sprint = Null) <=> (Len(L) = 0)

\* a DevOps-named future sprint leads the list and is passed over for the
\* active sprint behind it
C1_Witness ==
    /\ pc = "getNextSprint_return"
    /\ Len(allSprints) = 3
    /\ allSprints[1].state = "future"
    /\ IncludesDevOps(allSprints[1].name)
    /\ allSprints[2].state = "closed"
    /\ allSprints[3].state = "active"
    /\ sprint = allSprints[3]

(* C5: the list getAllSprints returns is sorted non-increasing by start    *)
(* date: of two sprints that both have a start date, the one placed        *)
(* earlier does not start earlier, whatever undated sprints lie between.   *)
C5_SortedByStartDate ==
    pc = "getNextSprint" =>
        \A i, j \in 1..Len(allSprints) :
            (/\ i < j
             /\ allSprints[i].startDate # NoDate
             /\ allSprints[j].startDate # NoDate)
            => allSprints[i].startDate >= allSprints[j].startDate

GroupKeyOf(issue) ==
    IF issue.parent # NoParent THEN issue.parent.key ELSE NO_EPIC

IssuesOfGroup(list, k) ==
    LET InGroup(t) == GroupKeyOf(t) = k IN SelectSeq(list, InGroup)

(* C2: organizeIssuesByEpic puts every issue in exactly one group, the one *)
(* keyed by its parent's key or else the NO_EPIC group, exactly once and   *)
(* in arrival order; no group of the result is empty, so NO_EPIC is there  *)
(* only when some issue has no parent.                                     *)
C2_EpicGrouper ==
    pc = "generateSlackCommands" =>
        /\ \A g, h \in 1..Len(epicGroups) :
              epicGroups[g].key = epicGroups[h].key => g = h
        /\ \A g \in 1..Len(epicGroups) :
              /\ epicGroups[g].issues = IssuesOfGroup(issues, epicGroups[g].key)
              /\ Len(epicGroups[g].issues) > 0
        /\ \A i \in 1..Len(issues) :
              \E g \in 1..Len(epicGroups) : epicGroups[g].key = GroupKeyOf(issues[i])
        /\ SeqSum([g \in 1..Len(epicGroups) |-> Len(epicGroups[g].issues)])
              = Len(issues)

\* three issues, all with a parent, in two epics: no NO_EPIC group
C2_Witness ==
    /\ pc = "generateSlackCommands"
    /\ Len(issues) = 3
    /\ \A i \in 1..3 : issues[i].parent # NoParent
    /\ Len(epicGroups) = 2
    /\ \A g \in 1..2 : epicGroups[g].key # NO_EPIC
    /\ Len(epicGroups[1].issues) = 2

\* where the text of group g starts, less one
GroupOffset(obj, g) ==
    SeqSum([h \in 1..(g - 1) |-> 7 * Len(obj[h].issues) + 1])

(* C3: generateSlackCommands emits, group after group in creation order,   *)
(* one line "/pp <base>/browse/<key> <summary>\n" per issue in the group's *)
(* order and then one "\n" per group, and nothing else.                    *)
C3_CommandFormatter ==
    pc \in {"main_write", "main_return"} =>
        /\ Len(slackCommands) = GroupOffset(epicGroups, Len(epicGroups) + 1)
        /\ \A g \in 1..Len(epicGroups) :
              /\ \A j \in 1..Len(epicGroups[g].issues) :
                    LET at == GroupOffset(epicGroups, g) + 7 * (j - 1)
                        t  == epicGroups[g].issues[j]
                    IN SubSeq(slackCommands, at + 1, at + 7)
                         = <<"/pp ", JIRA_BASE_URL_VALUE, "/browse/", t.key,
                             " ", t.summary, "\n">>
              /\ slackCommands[GroupOffset(epicGroups, g + 1)] = "\n"

\* two groups, NO_EPIC with two issues and then an epic with one
C3_Witness ==
    /\ pc = "main_return"
    /\ Len(epicGroups) = 2
    /\ epicGroups[1].key = NO_EPIC
    /\ Len(epicGroups[1].issues) = 2
    /\ epicGroups[1].issues[1].key # epicGroups[1].issues[2].key
    /\ Len(slackCommands) = 23

FileWritten == file # PriorContent

(* C4: slack-commands.md is written exactly in the runs that are in ticket *)
(* mode, resolved a sprint and got at least one issue, and then holds      *)
(* exactly the rendered commands; board-mode runs and runs that end at     *)
(* NoSprintFound, NoIssuesFound or Failed (the failure coming before the   *)
(* write took effect) leave the file as it was.                            *)
C4_OutputFile ==
    /\ FileWritten =>
          /\ ticketKey # NoArg
          /\ sprint # Null
          /\ Len(issues) > 0
          /\ file = slackCommands
          /\ Len(file) = 7 * Len(issues) + Len(epicGroups)
    /\ (pc = "exited" /\ outcome # "Failed") =>
          (FileWritten <=>
              (ticketKey # NoArg /\ sprint # Null /\ Len(issues) > 0))
    /\ (\/ ticketKey = NoArg
        \/ outcome \in {"NoSprintFound", "NoIssuesFound", "Failed"})
          => file = PriorContent

\* a ticket-mode run has ended with the file rewritten
C4_Witness ==
    /\ pc = "exited"
    /\ outcome = "Done"
    /\ ticketKey # NoArg
    /\ Len(issues) = 2
    /\ file = slackCommands
    /\ file # PriorContent

\* the request that made getAllSprints return failed
PageRequestFailed == pc = "getNextSprint" /\ lastResponse.kind = "error"

SameElements(a, b) ==
    /\ Len(a) = Len(b)
    /\ \A x \in {a[i] : i \in 1..Len(a)} :
          Cardinality({i \in 1..Len(a) : a[i] = x})
            = Cardinality({i \in 1..Len(b) : b[i] = x})

(* C6 as claimed: when a page request fails after k pages were fetched,    *)
(* getAllSprints returns the sprints collected from those k pages.         *)
C6_PartialResults ==
    PageRequestFailed => SameElements(allSprints, sprints)

(* C6 as amended: when a page request fails after k >= 0 pages were        *)
(* fetched, getAllSprints does not raise and returns the empty list; the   *)
(* sprints collected from the k pages are dropped.                         *)
C6_EmptyOnFailure ==
    PageRequestFailed =>
        /\ allSprints = <<>>
        /\ outcome = "none"
        /\ exitCode = Running

\* the third request fails after two pages brought one sprint each
C6_Witness ==
    /\ PageRequestFailed
    /\ startAt = 2 * maxResults
    /\ Len(sprints) = 2
    /\ allSprints = <<>>

(* C7: getSprintFromAgileAPI returns the sprint given by the last element  *)
(* of the ticket's sprint field when that is a non-empty array, and null   *)
(* when the field is missing, no array or empty or when the request fails; *)
(* it never throws into main.                                              *)
C7_SprintForTicket ==
    (ticketKey # NoArg /\ httpCalls = 1) =>
        /\ pc \in {"main_sprint", "getReadyToSizeIssuesFromSprint", "exited"}
        /\ IF /\ lastResponse.kind = "ok"
              /\ lastResponse.customSprint.type = "array"
              /\ Len(lastResponse.customSprint.items) > 0
           THEN LET items == lastResponse.customSprint.items
                IN IsSprintOf(sprint, items[Len(items)])
           ELSE sprint = Null

\* the field holds two different sprints and the second is returned
C7_Witness ==
    /\ pc = "main_sprint"
    /\ ticketKey # NoArg
    /\ lastResponse.kind = "ok"
    /\ lastResponse.customSprint.type = "array"
    /\ Len(lastResponse.customSprint.items) = 2
    /\ lastResponse.customSprint.items[1].id # lastResponse.customSprint.items[2].id
    /\ sprint.id = lastResponse.customSprint.items[2].id

(* C8: with one of the four configuration values absent the process ends   *)
(* with a non-zero exit code before any request is issued or the file is   *)
(* written; with all four present it ends, however the service answers,    *)
(* with exit code 0.                                                       *)
C8_StartupAndExit ==
    /\ (\E k \in ConfigKeys : ~config[k]) =>
          /\ httpCalls = 0
          /\ file = PriorContent
          /\ pc \in {"startup", "exited"}
          /\ pc = "exited" => (exitCode # 0 /\ exitCode # Running)
    /\ ((\A k \in ConfigKeys : config[k]) /\ pc = "exited") => exitCode = 0
    /\ (exitCode # Running) <=> (pc = "exited")

\* only the board id is missing and the process has ended with code 1
C8_Witness ==
    /\ pc = "exited"
    /\ ~config["JIRA_BOARD_ID"]
    /\ \A k \in ConfigKeys \ {"JIRA_BOARD_ID"} : config[k]
    /\ ticketKey # NoArg
    /\ exitCode = 1
    /\ httpCalls = 0

(* C9: a failed request is caught in the function that issued it, which    *)
(* returns the empty list or null; the run goes on to NoSprintFound or     *)
(* NoIssuesFound and never reaches main's catch (Failed) because of it.    *)
C9_TransportErrors ==
    /\ lastResponse.kind = "error" =>
          /\ pc # "main_catch"
          /\ outcome \in {"none", "NoSprintFound", "NoIssuesFound"}
          /\ pc \in {"getNextSprint", "getNextSprint_return", "main_sprint",
                     "main_issues", "exited"}
          /\ pc = "getNextSprint" => allSprints = <<>>
          /\ pc \in {"getNextSprint_return", "main_sprint"} => sprint = Null
          /\ pc = "main_issues" => issues = <<>>
    /\ (pc = "main_catch" \/ outcome = "Failed") =>
          /\ lastResponse.kind = "ok"
          /\ ticketKey # NoArg
          /\ Len(slackCommands) > 0
          /\ file = PriorContent

\* the issue search failed and the run ended at NoIssuesFound
C9_Witness ==
    /\ lastResponse.kind = "error"
    /\ httpCalls >= 2
    /\ sprint # Null
    /\ outcome = "NoIssuesFound"
    /\ exitCode = 0

(* C10: with every request answered the pagination loop of getAllSprints   *)
(* ends; a further page is requested only while the service has not        *)
(* reported the last page, fewer sprints were collected than the total it  *)
(* reported and fewer than MAX_SPRINTS_TO_FETCH were collected; and the    *)
(* list returned has at most MAX_SPRINTS_TO_FETCH sprints.                 *)
C10_Pagination ==
    /\ <>(pc = "getNextSprint")
    /\ [](pc = "getNextSprint" => Len(allSprints) <= MAX_SPRINTS_TO_FETCH)
    /\ [][httpCalls' = httpCalls + 1 =>
             /\ Len(sprints) < MAX_SPRINTS_TO_FETCH
             /\ lastResponse.kind # "novalues"
             /\ lastResponse.kind = "page" =>
                   (~lastResponse.isLast /\ lastResponse.more)]_vars

\* more than MAX_SPRINTS_TO_FETCH sprints were collected and the list
\* returned was cut to the cap
C10_Witness ==
    /\ pc = "getNextSprint"
    /\ Len(sprints) > MAX_SPRINTS_TO_FETCH
    /\ Len(allSprints) = MAX_SPRINTS_TO_FETCH
    /\ httpCalls > 20

====
